---- MODULE Spec2Model ----
(***************************************************************************)
(* Lambert's problem solver (lambert.py): the bisection root finder        *)
(* bisect and its caller solve_lambert.                                    *)
(*                                                                         *)
(* Floating-point numbers are modelled as integers counting grid steps     *)
(* (one step = the spacing of adjacent representable numbers), plus the    *)
(* value NaN.  A midpoint that falls between two grid points is rounded    *)
(* to the even one, as IEEE-754 round-to-nearest-even does.                *)
(***************************************************************************)
EXTENDS Integers, Sequences, FiniteSets, TLC

\* ---------------------------------------------------------------- bounds
\* grid points 0..MaxX are the bounds a call to bisect may be given
MaxX == 5
\* iteration budgets 0..MaxIter are the max_iter a call may be given
MaxIter == 3
\* precisions 0..MaxPrec are the precision a call may be given
MaxPrec == 1

\* ---------------------------------------------------------------- floats
\* NaN and None are encoded as integers outside the range of every finite
\* value of the model.
NaN == 0 - 1000000000
None == 0 - 1000000001

IsNaN(x) == x = NaN

IsNumber(x) == x # NaN /\ x # None

\* x - y on floats
FSub(x, y) == IF IsNaN(x) \/ IsNaN(y) THEN NaN ELSE x - y

\* x + y on floats
FAdd(x, y) == IF IsNaN(x) \/ IsNaN(y) THEN NaN ELSE x + y

\* the integer k times the float x
FTimes(k, x) == IF IsNaN(x) THEN NaN ELSE k * x

\* x / 2, exact for the even x it is applied to
FHalf(x) == IF IsNaN(x) THEN NaN ELSE x \div 2

Abs(x) == IF x < 0 THEN 0 - x ELSE x

\* np.sign: -1, 0, 1, and NaN for NaN
Sign(x) == IF IsNaN(x) THEN NaN ELSE IF x > 0 THEN 1 ELSE IF x < 0 THEN 0 - 1 ELSE 0

\* np.sign(x) == np.sign(y): NaN equals nothing, itself included
SignEq(x, y) == ~IsNaN(x) /\ ~IsNaN(y) /\ Sign(x) = Sign(y)

\* abs(val) <= precision: False when val is NaN
WithinPrecision(v, p) == ~IsNaN(v) /\ Abs(v) <= p

\* Midpoint with the division binding tighter than the sum: a + b/2
MidpointPrecedence(x, y) == x + y \div 2

\* (a+b)/2 rounded to the grid, ties to even
Midpoint(x, y) ==
    LET t == x + y
        q == t \div 2
    IN  IF t % 2 = 0 THEN q ELSE IF q % 2 = 0 THEN q ELSE q + 1

\* ------------------------------------------------------------ fixed point
\* solve_lambert's arithmetic is carried out on the grid too: a real x is the
\* integer x * Scale, and every operation rounds its result to the grid.
Scale == 100 * 100

\* np.pi on the grid
Pi == 31416

\* the largest finite magnitude (stands for a quotient too large for the grid)
Big == 1000 * 1000 * 1000 - 1

\* x rounded-divided by the positive integer d, symmetric about 0
RoundDiv(x, d) == IF x < 0 THEN 0 - ((d \div 2 - x) \div d) ELSE (x + d \div 2) \div d

\* x * y
MulFx(x, y) ==
    IF IsNaN(x) \/ IsNaN(y) THEN NaN
    ELSE LET sg == Sign(x) * Sign(y)
             xh == Abs(x) \div Scale
             xl == Abs(x) % Scale
             yh == Abs(y) \div Scale
             yl == Abs(y) % Scale
         IN  sg * (xh * Abs(y) + xl * yh + (xl * yl + Scale \div 2) \div Scale)

\* x / y; a division by zero gives an infinity (NaN for 0/0), as numpy's does
DivFx(x, y) ==
    IF IsNaN(x) \/ IsNaN(y) THEN NaN
    ELSE IF y = 0 THEN (IF x = 0 THEN NaN ELSE Sign(x) * Big)
    ELSE LET sg == Sign(x) * Sign(y)
             d  == Abs(y)
             q0 == Abs(x) \div d
             r0q == Abs(x) % d
             q1 == (r0q * 100) \div d
             r1q == (r0q * 100) % d
             q2 == (r1q * 100) \div d
         IN  sg * (q0 * Scale + q1 * 100 + q2)

\* the integer square root of n, by bisection on lo..hi
RECURSIVE ISqrtIn(_, _, _)
ISqrtIn(n, lo, hi) ==
    IF lo >= hi THEN lo
    ELSE LET m == (lo + hi + 1) \div 2
         IN  IF m * m <= n THEN ISqrtIn(n, m, hi) ELSE ISqrtIn(n, lo, m - 1)

ISqrt(n) == ISqrtIn(n, 0, 46340)

\* np.sqrt: NaN for a negative argument
SqrtFx(x) ==
    IF IsNaN(x) \/ x < 0 THEN NaN
    ELSE IF x < 200000 THEN ISqrt(x * Scale)
    ELSE IF x < 20000000 THEN ISqrt(x * 100) * 10
    ELSE ISqrt(x) * 100

\* number of terms of the sine and arcsine series
SinTerms == 7
ArcSinTerms == 14

\* the terms k..n-1 of the sine series after the term `term`
RECURSIVE SinSeries(_, _, _, _)
SinSeries(term, x2, k, n) ==
    IF k >= n THEN 0
    ELSE LET t == 0 - RoundDiv(MulFx(term, x2), (2 * k) * (2 * k + 1))
         IN  t + SinSeries(t, x2, k + 1, n)

\* sin on [0, pi/2]
SinQ(x) == x + SinSeries(x, MulFx(x, x), 1, SinTerms)

\* np.sin
RECURSIVE SinFx(_)
SinFx(x) ==
    IF IsNaN(x) THEN NaN
    ELSE IF x < 0 THEN 0 - SinFx(0 - x)
    ELSE IF x >= 2 * Pi THEN SinFx(x % (2 * Pi))
    ELSE IF x > Pi THEN 0 - SinFx(x - Pi)
    ELSE IF x > Pi \div 2 THEN SinQ(Pi - x)
    ELSE SinQ(x)

CosFx(x) == IF IsNaN(x) THEN NaN ELSE SinFx(Pi \div 2 - x)

\* np.tan
TanFx(x) ==
    IF IsNaN(x) THEN NaN
    ELSE IF CosFx(x) = 0 THEN (IF SinFx(x) >= 0 THEN Big ELSE 0 - Big)
    ELSE DivFx(SinFx(x), CosFx(x))

\* the terms k..n-1 of the arcsine series after the term `term`
RECURSIVE ArcSinSeries(_, _, _, _)
ArcSinSeries(term, y2, k, n) ==
    IF k >= n THEN 0
    ELSE LET t == RoundDiv(MulFx(term, y2) * ((2 * k - 1) * (2 * k - 1)),
                           (2 * k) * (2 * k + 1))
         IN  t + ArcSinSeries(t, y2, k + 1, n)

\* arcsin on [0, 1/sqrt(2)]
ArcSinQ(y) == y + ArcSinSeries(y, MulFx(y, y), 1, ArcSinTerms)

\* np.arcsin: NaN outside [-1, 1]
RECURSIVE ArcSinFx(_)
ArcSinFx(x) ==
    IF IsNaN(x) \/ x > Scale \/ x < 0 - Scale THEN NaN
    ELSE IF x < 0 THEN 0 - ArcSinFx(0 - x)
    ELSE IF x <= 7071 THEN ArcSinQ(x)
    ELSE Pi \div 2 - ArcSinQ(SqrtFx(Scale - MulFx(x, x)))

\* x < y on floats: False when either is NaN
FLt(x, y) == ~IsNaN(x) /\ ~IsNaN(y) /\ x < y

\* np.linalg.norm of a planar vector.  The norm is kept on a grid of 4 steps,
\* so that the two halvings s = (R0+R1+c)/2 and a_min = s/2 are exact, as
\* they are in binary floating point.
Norm(v) ==
    LET n == SqrtFx(MulFx(v[1], v[1]) + MulFx(v[2], v[2]))
    IN  IF IsNaN(n) THEN NaN ELSE ((n + 2) \div 4) * 4

\* ------------------------------------------------------------- main code
calc_alpha(x, sp, long) ==
    LET h == ArcSinFx(SqrtFx(DivFx(sp, 2 * x)))
    IN  IF IsNaN(h) THEN NaN
        ELSE IF long THEN 2 * Pi - 2 * h ELSE 2 * h

calc_beta(x, sp, ch) ==
    LET h == ArcSinFx(SqrtFx(DivFx(sp - ch, 2 * x)))
    IN  IF IsNaN(h) THEN NaN ELSE 2 * h

lagrange_eq(x, gm, sp, ch, long) ==
    LET A == calc_alpha(x, sp, long)
        B == calc_beta(x, sp, ch)
        p == SqrtFx(DivFx(MulFx(MulFx(x, x), x), gm))
    IN  IF IsNaN(A) \/ IsNaN(B) \/ IsNaN(p) THEN NaN
        ELSE MulFx(p, (A - B) - (SinFx(A) - SinFx(B)))

\* VelocityComponent adding Y*r_unit for v2 as for v1
VelocityComponentSameSign(p, X, Y, rcn, ru, sg) ==
    MulFx(p, FAdd(MulFx(X, rcn), MulFx(Y, ru)))

\* one component of p * (X*rc_norm + sg*Y*r_unit), sg = 1 for v1, -1 for v2
VelocityComponent(p, X, Y, rcn, ru, sg) ==
    MulFx(p, FAdd(MulFx(X, rcn), FTimes(sg, MulFx(Y, ru))))

calc_velocity(p0, p1, rc, x, al, be, gm) ==
    LET nrc == Norm(rc)
        rcn == <<DivFx(rc[1], nrc), DivFx(rc[2], nrc)>>
        p   == SqrtFx(DivFx(gm, 4 * x))
        cb  == DivFx(Scale, TanFx(FHalf(be)))
        ca  == DivFx(Scale, TanFx(FHalf(al)))
        X   == FAdd(cb, ca)
        Y   == FSub(cb, ca)
        n0  == Norm(p0)
        n1  == Norm(p1)
    IN  << <<VelocityComponent(p, X, Y, rcn[1], DivFx(p0[1], n0), 1),
             VelocityComponent(p, X, Y, rcn[2], DivFx(p0[2], n0), 1)>>,
           <<VelocityComponent(p, X, Y, rcn[1], DivFx(p1[1], n1), 0 - 1),
             VelocityComponent(p, X, Y, rcn[2], DivFx(p1[2], n1), 0 - 1)>> >>

\* the values a generic f may return at a point
FValues == {0 - 2, 0 - 1, 0, 1, 2, NaN}

\* the targets a generic call may be given (0 is the default)
Targets == {0, 1}

\* solve_lambert leaves max_iter at bisect's default
DefaultMaxIter == 1000

\* bisect's default precision as solve_lambert's runs see it: like 10^-8 among
\* doubles, a few grid steps wide
PrecisionFx == 10

\* mu = 4*pi^2 of the reference scenario
MuRef == 394784

\* the calls solve_lambert(r0, r1, dt, mu) of the model: the reference
\* scenario r0 = (1,0), r1 = (0,1), mu = 4*pi^2 with transfer times below,
\* inside and above the range of the Lagrange equation on either branch, a
\* second geometry, and the inputs NaN comes from (dt = NaN, mu < 0)
RefTimes == {1000, 3000, 3808, 20000, 100000, 500000, 1000000, NaN}

Scenarios ==
    {[r0 |-> <<Scale, 0>>, r1 |-> <<0, Scale>>, dt |-> t, mu |-> MuRef] : t \in RefTimes}
    \cup {[r0 |-> <<Scale, 0>>, r1 |-> <<0, Scale>>, dt |-> 20000, mu |-> 0 - Scale]}
    \cup {[r0 |-> <<2 * Scale, 0>>, r1 |-> <<0 - Scale, Scale>>, dt |-> t, mu |-> MuRef] :
            t \in {5000, 20000}}

VARIABLES
    caller,     \* who called bisect: "bisect" (a direct call) or "solve_lambert"
    pc,         \* control point
    a, b,       \* bisect: the active bracket
    mid,        \* bisect: the last midpoint computed (None before the loop)
    iter,       \* bisect: iterations of the for loop completed
    max_iter, precision, target,   \* bisect: parameters
    result,     \* bisect: the value returned (None until it returns)
    a0, b0,     \* the bounds the call was given
    f,          \* the callable given: "any" (a generic f), "square", "lagrange"
    fmemo,      \* the graph of f on the points where its value is fixed so far
    nEval,      \* number of calls of f made by bisect
    mids,       \* the midpoints computed, in order
    nanSeen,    \* whether some value computed so far was NaN
    r0, r1, dt, mu,     \* solve_lambert: parameters
    s, c,               \* solve_lambert: semiperimeter and chord
    t_max_short_path,   \* solve_lambert: short-arc time at a_min
    long_arc,           \* solve_lambert: the branch flag
    lagrange,           \* solve_lambert: the arguments bound in the partial
    sma, v1, v2,        \* solve_lambert: the tuple returned
    alpha, beta         \* solve_lambert: the angles at the returned a

bvars == <<a, b, mid, iter, max_iter, precision, target, result, a0, b0,
           f, fmemo, nEval, mids>>

lvars == <<r0, r1, dt, mu, s, c, t_max_short_path, long_arc, lagrange,
           sma, v1, v2, alpha, beta>>

vars == <<caller, pc, bvars, nanSeen, lvars>>

\* f's value at x when already fixed
F(x) == fmemo[x]

\* fmemo with f(x) = v recorded
Learn(m, x, v) == [y \in DOMAIN m \cup {x} |-> IF y = x THEN v ELSE m[y]]

\* lambda x: x**2 - 4
Square(x) == FSub(MulFx(x, x), 4 * Scale)

\* the values a call f(x) may return, m being f's graph so far: the one in
\* m; else, for solve_lambert's partial, the Lagrange equation at x; for the
\* square, its value; else any value of a generic f
FChoices(m, x) ==
    IF x \in DOMAIN m THEN {m[x]}
    ELSE IF f = "lagrange"
         THEN {lagrange_eq(x, lagrange.mu, lagrange.s, lagrange.c, lagrange.long_arc)}
         ELSE IF f = "square" THEN {Square(x)}
         ELSE FValues

\* ------------------------------------------------------------------ Init
\* A direct call bisect(f, a, b, target, max_iter, precision).  f's values at
\* the two bounds are part of the input f.
InitBisect ==
    /\ caller = "bisect"
    /\ f = "any"
    /\ pc = "entry"
    /\ a \in 0..MaxX /\ b \in 0..MaxX
    /\ a0 = a /\ b0 = b
    /\ max_iter \in (0 - 1)..MaxIter
    /\ precision \in 0..MaxPrec
    /\ target \in Targets
    /\ mid = None /\ result = None /\ iter = 0 /\ nEval = 0 /\ mids = <<>>
    /\ nanSeen = FALSE
    /\ \E va \in FValues, vb \in FValues :
          fmemo = IF a < b THEN Learn(Learn(<<>>, a, va), b, vb) ELSE <<>>
    /\ r0 = None /\ r1 = None /\ dt = None /\ mu = None /\ s = None /\ c = None
    /\ t_max_short_path = None /\ long_arc = FALSE /\ lagrange = None
    /\ sma = None /\ v1 = None /\ v2 = None /\ alpha = None /\ beta = None

\* The call bisect(lambda x: x**2 - 4, 0, 10) with the defaults.
InitSquare ==
    /\ caller = "bisect"
    /\ f = "square"
    /\ pc = "entry"
    /\ a = 0 /\ b = 10 * Scale
    /\ a0 = a /\ b0 = b
    /\ max_iter = DefaultMaxIter
    /\ precision = PrecisionFx
    /\ target = 0
    /\ mid = None /\ result = None /\ iter = 0 /\ nEval = 0 /\ mids = <<>>
    /\ nanSeen = FALSE
    /\ fmemo = Learn(Learn(<<>>, a, Square(a)), b, Square(b))
    /\ r0 = None /\ r1 = None /\ dt = None /\ mu = None /\ s = None /\ c = None
    /\ t_max_short_path = None /\ long_arc = FALSE /\ lagrange = None
    /\ sma = None /\ v1 = None /\ v2 = None /\ alpha = None /\ beta = None

\* A call solve_lambert(r0, r1, dt, mu).
InitLambert ==
    /\ caller = "solve_lambert"
    /\ f = None
    /\ pc = "solve"
    /\ \E sc \in Scenarios : r0 = sc.r0 /\ r1 = sc.r1 /\ dt = sc.dt /\ mu = sc.mu
    /\ a = None /\ b = None /\ a0 = None /\ b0 = None
    /\ max_iter = None /\ precision = None /\ target = None
    /\ mid = None /\ result = None /\ iter = 0 /\ nEval = 0 /\ mids = <<>>
    /\ nanSeen = FALSE
    /\ fmemo = <<>>
    /\ s = None /\ c = None
    /\ t_max_short_path = None /\ long_arc = FALSE /\ lagrange = None
    /\ sma = None /\ v1 = None /\ v2 = None /\ alpha = None /\ beta = None

Init == InitBisect \/ InitSquare \/ InitLambert

\* --------------------------------------------------------------- bisect
\* AssertsHold without the check of max_iter
AssertsHoldNoBudgetCheck(x, y, n) == FLt(x, y)

\* lines 46-47: assert a < b; assert max_iter > 0
AssertsHold(x, y, n) == FLt(x, y) /\ n > 0

\* lines 46-47: the two assertions; a failed one raises AssertionError
BisectAssert ==
    /\ pc = "entry"
    /\ pc' = IF AssertsHold(a, b, max_iter) THEN "loop" ELSE "assert_failed"
    /\ UNCHANGED <<caller, bvars, nanSeen, lvars>>

\* Converged without the absolute value: val <= precision
ConvergedSigned(val, p) == ~IsNaN(val) /\ val <= p

\* Converged with a strict comparison: abs(val) < precision
ConvergedStrict(val, p) == ~IsNaN(val) /\ Abs(val) < p

\* line 54: abs(val) <= precision
Converged(val, p) == WithinPrecision(val, p)

\* KeepUpperHalf with the two halves swapped
KeepUpperHalfSwapped(resa, val) == ~SignEq(resa, val)

\* KeepUpperHalf for an increasing f only: the sign of val alone decides
KeepUpperHalfIncreasingOnly(resa, val) == ~IsNaN(val) /\ val < 0

\* line 56: np.sign(f(a)-target) == np.sign(val)
KeepUpperHalf(resa, val) == SignEq(resa, val)

\* lines 50-59: one iteration of the for loop
BisectIter ==
    /\ pc = "loop"
    /\ iter < max_iter
    /\ LET m == Midpoint(a, b) IN
       \E fm \in FChoices(fmemo, m) :
          LET val == FSub(fm, target)
              memo1 == Learn(fmemo, m, fm)
          IN  /\ mid' = m
              /\ mids' = Append(mids, m)
              /\ iter' = iter + 1
              /\ IF Converged(val, precision)
                 THEN /\ pc' = "returned"
                      /\ result' = m
                      /\ fmemo' = memo1
                      /\ nEval' = nEval + 1
                      /\ nanSeen' = nanSeen
                      /\ UNCHANGED <<a, b>>
                 ELSE \E fa \in FChoices(memo1, a) :
                      LET resa == FSub(fa, target) IN
                      /\ pc' = "loop"
                      /\ result' = result
                      /\ fmemo' = Learn(memo1, a, fa)
                      /\ nEval' = nEval + 2
                      /\ nanSeen' = (nanSeen \/ IsNaN(val) \/ IsNaN(resa))
                      /\ IF KeepUpperHalf(resa, val)
                         THEN a' = m /\ b' = b
                         ELSE b' = m /\ a' = a
    /\ UNCHANGED <<caller, max_iter, precision, target, a0, b0, f, lvars>>

\* line 61: the loop ran out of iterations
BisectReturnLast ==
    /\ pc = "loop"
    /\ iter >= max_iter
    /\ pc' = "returned"
    /\ result' = mid
    /\ UNCHANGED <<caller, a, b, mid, iter, max_iter, precision, target,
                   a0, b0, f, fmemo, nEval, mids, nanSeen, lvars>>

\* -------------------------------------------------------- solve_lambert
\* UseLongArc with a non-strict comparison: t_max_short_path <= dt
UseLongArcOrEqual(tmax, t) == ~IsNaN(tmax) /\ ~IsNaN(t) /\ tmax <= t

\* line 367: t_max_short_path < dt
UseLongArc(tmax, t) == FLt(tmax, t)

\* lines 354-373: the geometry, the bounds, the branch decision, and the call
\* bisect(lagrange, a=a_min, b=a_max, target=dt)
SolveLambertCall ==
    /\ pc = "solve"
    /\ LET R0 == Norm(r0)
           R1 == Norm(r1)
           ch == Norm(<<r1[1] - r0[1], r1[2] - r0[2]>>)
           sp == (R0 + R1 + ch) \div 2
           a_min == sp \div 2
           a_max == 20 * a_min
           tmax == lagrange_eq(a_min, mu, sp, ch, FALSE)
           long == UseLongArc(tmax, dt)
       IN  /\ c' = ch
           /\ s' = sp
           /\ t_max_short_path' = tmax
           /\ long_arc' = long
           /\ lagrange' = [mu |-> mu, s |-> sp, c |-> ch, long_arc |-> long]
           /\ a' = a_min /\ b' = a_max /\ a0' = a_min /\ b0' = a_max
           /\ target' = dt
           /\ nanSeen' = (nanSeen \/ IsNaN(tmax) \/ IsNaN(dt))
    /\ f' = "lagrange"
    /\ max_iter' = DefaultMaxIter
    /\ precision' = PrecisionFx
    /\ pc' = "entry"
    /\ UNCHANGED <<caller, mid, iter, result, fmemo, nEval, mids,
                   r0, r1, dt, mu, sma, v1, v2, alpha, beta>>

\* lines 375-380: the angles at the returned a, the velocities, the result
SolveLambertReturn ==
    /\ pc = "returned"
    /\ caller = "solve_lambert"
    /\ LET al == calc_alpha(result, s, long_arc)
           be == calc_beta(result, s, c)
           v  == calc_velocity(r0, r1, <<r1[1] - r0[1], r1[2] - r0[2]>>,
                               result, al, be, mu)
       IN  /\ alpha' = al
           /\ beta' = be
           /\ v1' = v[1]
           /\ v2' = v[2]
           /\ sma' = result
           /\ nanSeen' = (nanSeen \/ IsNaN(al) \/ IsNaN(be)
                                  \/ \E i \in 1..2 : IsNaN(v[1][i]) \/ IsNaN(v[2][i]))
    /\ pc' = "done"
    /\ UNCHANGED <<caller, bvars, r0, r1, dt, mu, s, c, t_max_short_path,
                   long_arc, lagrange>>

Next ==
    \/ BisectAssert
    \/ BisectIter
    \/ BisectReturnLast
    \/ SolveLambertCall
    \/ SolveLambertReturn

Spec == Init /\ [][Next]_vars

\* =================================================================
\* Properties
\* =================================================================

\* the residual f(x) - target at a point where f's value is fixed
Res(x) == FSub(F(x), target)

\* the residuals at x and y are non-zero numbers of opposite sign
Bracketed(x, y) ==
    /\ x \in DOMAIN fmemo /\ y \in DOMAIN fmemo
    /\ ~IsNaN(Res(x)) /\ ~IsNaN(Res(y))
    /\ Sign(Res(x)) * Sign(Res(y)) = 0 - 1

\* the graph m is that of a strictly monotonic real function
StrictMono(m) ==
    /\ \A x \in DOMAIN m : ~IsNaN(m[x])
    /\ \/ \A x, y \in DOMAIN m : x < y => m[x] < m[y]
       \/ \A x, y \in DOMAIN m : x < y => m[x] > m[y]

\* bisect has returned (solve_lambert may have gone on to its own return)
Returned == pc \in {"returned", "done"}

\* the least k with 2^k >= w
RECURSIVE Log2Ceil(_)
Log2Ceil(w) == IF w <= 1 THEN 0 ELSE 1 + Log2Ceil((w + 1) \div 2)

\* w2 is half of w, up to the rounding of the midpoint to the grid
HalfOf(w, w2) == 2 * w2 = w \/ 2 * w2 = w - 1 \/ 2 * w2 = w + 1

\* a valid input of solve_lambert: a positive transfer time and a positive mu
ValidLambertInput == IsNumber(dt) /\ dt > 0 /\ IsNumber(mu) /\ mu > 0

\* the Lagrange equation at the returned a, on the branch selected, minus dt
RoundTripResidual == FSub(lagrange_eq(sma, mu, s, c, long_arc), dt)

\* ---- C1
\* C1: the value bisect returns lies within the bounds it was given, for
\* every f; so the semi-major axis solve_lambert returns lies within
\* [a_min, a_max], a_min = s/2, a_max = 20*a_min.
C1_ResultWithinBracket ==
    /\ Returned => IsNumber(result) /\ a0 <= result /\ result <= b0
    /\ pc = "done" => /\ sma = result
                      /\ s \div 2 <= sma
                      /\ sma <= 20 * (s \div 2)

\* solve_lambert has returned an a strictly inside its bracket
C1_Witness == pc = "done" /\ s \div 2 < sma /\ sma < 20 * (s \div 2)

DtInRange ==
    LET lo == FSub(lagrange_eq(a0, mu, s, c, long_arc), dt)
        hi == FSub(lagrange_eq(b0, mu, s, c, long_arc), dt)
    IN  ~IsNaN(lo) /\ ~IsNaN(hi) /\ Sign(lo) * Sign(hi) = 0 - 1

\* the value returned is a bound of a bracket of two adjacent grid points
\* between which the residual changes sign
CrossingLocated ==
    /\ b - a <= 1
    /\ Bracketed(a, b)
    /\ result \in {a, b}

C3_BranchSelection ==
    /\ [](caller = "solve_lambert" /\ pc # "solve" =>
            /\ long_arc = FLt(t_max_short_path, dt)
            /\ lagrange.long_arc = long_arc
            /\ (pc = "entry" =>
                  t_max_short_path = lagrange_eq(s \div 2, mu, s, c, FALSE))
            /\ (pc = "done" => alpha = calc_alpha(sma, s, long_arc)))
    /\ [][pc # "solve" => long_arc' = long_arc /\ lagrange' = lagrange]_vars

\* a solve whose dt equals the short-arc time at a_min stayed on the short arc
C3_Witness ==
    /\ pc = "done" /\ IsNumber(dt) /\ dt = t_max_short_path /\ ~long_arc

\* ---- C4
\* the two grid points next to a sign change of the residual both meet the
\* precision: the bracket can shrink below the width the precision needs
CrossingResolved ==
    \A x \in DOMAIN fmemo :
        (x + 1 \in DOMAIN fmemo /\ Bracketed(x, x + 1)) =>
            /\ WithinPrecision(Res(x), precision)
            /\ WithinPrecision(Res(x + 1), precision)

C5_ContractViolationFailsFast ==
    (pc # "solve" /\ (a0 >= b0 \/ max_iter <= 0)) =>
        /\ pc \in {"entry", "assert_failed"}
        /\ nEval = 0 /\ mids = <<>> /\ mid = None /\ result = None

\* a call with a non-positive budget and ordered bounds failed its assertion
C5_Witness == pc = "assert_failed" /\ a0 < b0 /\ max_iter <= 0

\* ---- C6
\* C6: bisect runs at most max_iter iterations and then returns a number,
\* never raising from the loop: the first midpoint whose residual is within
\* the precision, returned in the iteration that computed it, or else the
\* midpoint of the max_iter-th iteration.
C6_ReturnsWithinBudget ==
    /\ [](/\ pc = "loop" => iter <= max_iter
          /\ Returned =>
                LET n == Len(mids) IN
                /\ IsNumber(result) /\ n >= 1 /\ n <= max_iter /\ n = iter
                /\ result = mids[n]
                /\ \A i \in 1..(n - 1) : ~WithinPrecision(Res(mids[i]), precision)
                /\ (WithinPrecision(Res(result), precision) \/ n = max_iter))
    /\ [][pc = "loop" =>
            \/ pc' = "returned" /\ iter' <= iter + 1
            \/ pc' = "loop" /\ iter' = iter + 1]_vars

\* a call ran out of iterations and returned its last midpoint unconverged
C6_Witness ==
    /\ pc = "returned" /\ Len(mids) = max_iter /\ max_iter >= 2
    /\ ~WithinPrecision(Res(result), precision)

\* ---- C7
\* C7: when a value computed during a call is NaN, the caller does not get
\* an ordinary finite result.
C7_NaNNeverFinite == (Returned /\ nanSeen) => ~IsNumber(result)

\* ---- C8
\* tolerance of the vis-viva check, in percent (the grid resolves 10^-4)
TolPercent == 2

\* |v|^2
SquaredNorm(v) == FAdd(MulFx(v[1], v[1]), MulFx(v[2], v[2]))

\* mu * (2/R - 1/a)
VisViva(R) == MulFx(mu, FSub(DivFx(2 * Scale, R), DivFx(Scale, sma)))

\* x equals y within TolPercent
Close(x, y) == ~IsNaN(x) /\ ~IsNaN(y) /\ 100 * Abs(x - y) <= TolPercent * Abs(y)

OneBoundMoved ==
    \/ a' = mid' /\ b' = b /\ a' # a
    \/ b' = mid' /\ a' = a /\ b' # b

\* C9 as stated: for a strictly monotonic f every iteration that does not
\* return moves exactly one bound to the midpoint, leaving a proper
\* sub-interval of half the width with a < b.
C9_EveryIterationShrinks ==
    [][(pc = "loop" /\ pc' = "loop" /\ StrictMono(fmemo')) =>
          /\ OneBoundMoved
          /\ a' < b'
          /\ HalfOf(b - a, b' - a')]_vars

\* C9 amended: for a strictly monotonic f, an iteration that does not return
\* never widens the bracket and keeps a <= b; it keeps a target the bracket
\* encloses enclosed; and while the bracket is wider than one grid step it
\* moves exactly one bound to the midpoint, leaving a proper sub-interval of
\* half the width (up to rounding) with a < b.  On a bracket one grid step
\* wide the midpoint is one of the bounds and the bracket stops shrinking.
C9_ShrinksAboveGridStep ==
    [][(pc = "loop" /\ pc' = "loop" /\ StrictMono(fmemo')) =>
          /\ a <= a' /\ a' <= b' /\ b' <= b
          /\ (Bracketed(a, b) => Bracketed(a, b)')
          /\ (b - a >= 2 =>
                /\ OneBoundMoved
                /\ a' < b'
                /\ HalfOf(b - a, b' - a'))]_vars

\* a strictly monotonic f, a bracketed target, and a bracket halved twice
C9_Witness ==
    /\ pc = "loop" /\ f = "any" /\ StrictMono(fmemo) /\ Bracketed(a, b)
    /\ iter = 2 /\ b0 - a0 >= 4 /\ b - a < b0 - a0 /\ a < b

====
